---- MODULE Spec2Model ----
(***************************************************************************)
(* Model of thor::ParticleSystem (src/src/ParticleSystem.cpp).             *)
(*                                                                         *)
(* sf::Time is an integer number of time units.  A particle carries a      *)
(* one-dimensional position and a rotation; dt.asSeconds() * velocity is   *)
(* the integer product dt * velocity.  update() is modelled in steps: its  *)
(* entry, one step per iteration of the emitter loop (which runs host     *)
(* callbacks that append particles), and the rest of the function.        *)
(* Fields and variables that the program does not have (particle ids, the  *)
(* logs of one update) are history variables used to state properties.     *)
(* In Spec, emitter callbacks append at most one particle and affector    *)
(* callbacks either paint a particle or end its life; neither changes a    *)
(* registry.  SpecCallbacks adds emitter callbacks that register an        *)
(* affector or an emitter or disconnect an emitter, and an affector that   *)
(* fails; LiveSpecRegistering is its registering part under fairness of    *)
(* the running update; SpecSigned explores times of either sign.           *)
(***************************************************************************)
EXTENDS Integers, Sequences, FiniteSets, TLC

\* ---- bounds of the model ------------------------------------------------
MaxEmitters == 3     \* emitters ever registered
MaxAffectors == 2    \* affectors ever registered
MaxPids == 2         \* particles ever emitted
MaxDt == 2           \* largest elapsed time of one update
MaxDuration == 2     \* the finite duration of a registration
MaxLifetime == 2     \* largest totalLifetime of an emitted particle

\* ---- program constants ----------------------------------------------------
Zero == 0            \* sf::Time::Zero

\* The runs that are explored: one emitter and one particle with all the
\* affectors, all the emitters with one particle and no affector, and one
\* emitter with all the particles and no affector.
Runs ==
    {[emitters |-> 1, affectors |-> MaxAffectors, particles |-> 1],
     [emitters |-> MaxEmitters, affectors |-> 0, particles |-> 1],
     [emitters |-> 1, affectors |-> 0, particles |-> MaxPids]}

DtSet == 0..MaxDt
DurationSet == {Zero, MaxDuration}
LifetimeSet == 1..MaxLifetime
EmitterFunctions == {"emit"}
AffectorFunctions == {"color", "kill"}

VARIABLES
    mParticles,          \* ParticleContainer (std::vector<Particle>)
    mAffectors,          \* AffectorContainer
    mEmitters,           \* EmitterContainer
    mVertices,           \* cached sf::VertexArray
    mNeedsVertexUpdate,  \* dirty flag of the cache
    pc,                  \* position inside update(): idle, emitters, done, thrown, undefined
    dt,                  \* argument of the running update()
    itr,                 \* iterator of the emitter / affector loop (1-based index)
    nextId,              \* next id handed to a new Emitter/Affector
    nextPid,             \* history: next particle identity
    caps,                \* how many emitters, affectors and particles this run creates
    connections,         \* Connection objects held by the host
    emStart,             \* history: mEmitters at the start of the running update
    afStart,             \* history: mAffectors at the start of the running update
    emitterCalls,        \* history: ids of the emitter callbacks invoked by the running update
    emitted,             \* history: particles appended by the running update, as appended
    passStart,           \* history: mParticles at the start of the particle pass
    observed,            \* history: what the affectors saw in the last particle iteration
    registryCalls,       \* history: registry operations made by the callbacks of the running update
    target,              \* history: vertex list handed to the render target since the last update()
    drawn,               \* history: draw() calls since the last update(), counted up to 2
    rebuilds             \* history: computeVertices() calls since the last update(), counted up to 2

vars == <<mParticles, mAffectors, mEmitters, mVertices, mNeedsVertexUpdate,
          pc, dt, itr, nextId, nextPid, caps, connections,
          emStart, afStart, emitterCalls, emitted, passStart, observed, registryCalls,
          target, drawn, rebuilds>>

sim == <<mParticles, mAffectors, mEmitters, mVertices, mNeedsVertexUpdate>>
loop == <<pc, dt, itr>>

hist == <<emStart, afStart, emitterCalls, emitted, passStart, observed, registryCalls>>
render == <<target, drawn, rebuilds>>

\* ---- helpers ----------------------------------------------------------------
Min(a, b) == IF a < b THEN a ELSE b

Range(s) == {s[i] : i \in 1..Len(s)}

Ids(s) == {s[i].id : i \in 1..Len(s)}

IdSeq(s) == [i \in 1..Len(s) |-> s[i].id]

\* std::vector::erase(itr)
Erase(ctr, i) == [k \in 1..(Len(ctr) - 1) |-> IF k < i THEN ctr[k] ELSE ctr[k + 1]]

\* ---- incrementCheckExpiry ----------------------------------------------------
\* Mutant: the expiry test is < instead of <=.
incrementCheckExpiryLess(ctr, i, d) ==
    LET t == ctr[i].timeUntilRemoval IN
    IF t # Zero /\ t - d < Zero
    THEN [ctr |-> Erase(ctr, i), itr |-> i]
    ELSE [ctr |-> IF t # Zero THEN [ctr EXCEPT ![i].timeUntilRemoval = t - d] ELSE ctr,
          itr |-> i + 1]

\* Mutant: Time::Zero is not treated as "infinite".
incrementCheckExpiryNoSentinel(ctr, i, d) ==
    LET t == ctr[i].timeUntilRemoval IN
    IF t - d <= Zero
    THEN [ctr |-> Erase(ctr, i), itr |-> i]
    ELSE [ctr |-> [ctr EXCEPT ![i].timeUntilRemoval = t - d], itr |-> i + 1]

\* Mutant: the expired entry is left in the container.
incrementCheckExpiryNoErase(ctr, i, d) ==
    LET t == ctr[i].timeUntilRemoval IN
    [ctr |-> IF t # Zero THEN [ctr EXCEPT ![i].timeUntilRemoval = t - d] ELSE ctr,
     itr |-> i + 1]

\* Mutant: after an erase the iterator is advanced once more.
incrementCheckExpirySkip(ctr, i, d) ==
    LET t == ctr[i].timeUntilRemoval IN
    IF t # Zero /\ t - d <= Zero
    THEN [ctr |-> Erase(ctr, i), itr |-> i + 1]
    ELSE [ctr |-> IF t # Zero THEN [ctr EXCEPT ![i].timeUntilRemoval = t - d] ELSE ctr,
          itr |-> i + 1]

\* Erases the entry at itr if its time has expired; itr then points to the next
\* element.  The decrement happens only when timeUntilRemoval is not Zero.
incrementCheckExpiry(ctr, i, d) ==
    LET t == ctr[i].timeUntilRemoval IN
    IF t # Zero /\ t - d <= Zero
    THEN [ctr |-> Erase(ctr, i), itr |-> i]
    ELSE [ctr |-> IF t # Zero THEN [ctr EXCEPT ![i].timeUntilRemoval = t - d] ELSE ctr,
          itr |-> i + 1]

\* Mutant: the affector expiry loop does not run.
ExpiryLoopNone(ctr, i, d) == ctr

\* the affector expiry loop of update()
RECURSIVE ExpiryLoop(_, _, _)
ExpiryLoop(ctr, i, d) ==
    IF i > Len(ctr) THEN ctr
    ELSE LET r == incrementCheckExpiry(ctr, i, d) IN ExpiryLoop(r.ctr, r.itr, d)

\* ---- registration --------------------------------------------------------------
\* Function<Signature>(fn, timeUntilRemoval): the entry and its fresh id.
\* duration and elapsed are history fields: the duration the entry was registered
\* with and the elapsed time of the updates that returned since then.
Entry(fn, t, id) ==
    [id |-> id, function |-> fn, timeUntilRemoval |-> t, duration |-> t, elapsed |-> 0]

\* detail::makeIdConnectionImpl(container, id): a connection that finds its
\* entry by id in the container it was made for
makeIdConnectionImpl(ctrName, id) == [ctr |-> ctrName, id |-> id]

\* Mutant: the connection is bound to the id of the front entry.
addEmitterFrontId(emitters, fn, t, id) ==
    LET pushed == Append(emitters, Entry(fn, t, id)) IN
    [ctr |-> pushed, connection |-> makeIdConnectionImpl("emitters", pushed[1].id)]

\* addEmitter(emitter, timeUntilRemoval)
addEmitter(emitters, fn, t, id) ==
    LET pushed == Append(emitters, Entry(fn, t, id)) IN
    [ctr |-> pushed, connection |-> makeIdConnectionImpl("emitters", pushed[Len(pushed)].id)]

\* addEmitter(emitter): the infinite-time overload
addEmitterInfinite(emitters, fn, id) == addEmitter(emitters, fn, Zero, id)

\* addAffector(affector, timeUntilRemoval)
addAffector(affectors, fn, t, id) ==
    LET pushed == Append(affectors, Entry(fn, t, id)) IN
    [ctr |-> pushed, connection |-> makeIdConnectionImpl("affectors", pushed[Len(pushed)].id)]

\* addAffector(affector): the infinite-time overload
addAffectorInfinite(affectors, fn, id) == addAffector(affectors, fn, Zero, id)

\* IdConnectionImpl::disconnect(): linear search for the id, erase the match
RECURSIVE FindId(_, _, _)
FindId(ctr, id, i) ==
    IF i > Len(ctr) THEN 0
    ELSE IF ctr[i].id = id THEN i
    ELSE FindId(ctr, id, i + 1)

disconnect(ctr, id) ==
    LET i == FindId(ctr, id, 1) IN
    IF i = 0 THEN ctr ELSE Erase(ctr, i)

\* ---- particles -------------------------------------------------------------------
\* Mutant: the lifetime is not accumulated.
updateParticleNoAge(p, d) ==
    [p EXCEPT !.position = @ + d * p.velocity,
              !.rotation = @ + d * p.rotationSpeed]

\* Mutant: the position is not integrated.
updateParticleNoMove(p, d) ==
    [p EXCEPT !.passedLifetime = @ + d,
              !.rotation = @ + d * p.rotationSpeed]

\* Mutant: the particle advances by one time unit whatever dt is.
updateParticleUnitStep(p, d) ==
    [p EXCEPT !.passedLifetime = @ + 1,
              !.position = @ + p.velocity,
              !.rotation = @ + p.rotationSpeed]

\* updateParticle(particle, dt)
updateParticle(p, d) ==
    [p EXCEPT !.passedLifetime = @ + d,
              !.position = @ + d * p.velocity,
              !.rotation = @ + d * p.rotationSpeed]

\* Mutant: every particle counts as alive.
IsAliveAlways(p) == TRUE

\* the test of update(): "if current particle is not dead"
IsAlive(p) == p.passedLifetime < p.totalLifetime

\* the body of a host affector callback: "kill" ends the particle's life,
\* "color" paints it red.  touched is a history field: an affector changed
\* the particle's lifetime.
affectorFunction(fn, p, d) ==
    IF fn = "kill" THEN [p EXCEPT !.passedLifetime = p.totalLifetime, !.touched = TRUE]
    ELSE [p EXCEPT !.color = "red"]

\* AURORA_FOREACH(auto& affectorPair, mAffectors) affectorPair.function(*reader, dt)
\* calls: what each callback was handed, in call order
RECURSIVE ApplyAffectors(_, _, _, _, _)
ApplyAffectors(affectors, k, p, d, calls) ==
    IF k > Len(affectors) THEN [particle |-> p, calls |-> calls]
    ELSE ApplyAffectors(affectors, k + 1, affectorFunction(affectors[k].function, p, d), d,
                        Append(calls, [affector |-> affectors[k].id, particle |-> p.id,
                                       passedLifetime |-> p.passedLifetime,
                                       totalLifetime |-> p.totalLifetime]))

\* Mutant: the survivor is not copied to the writer position.
WriteBackSkip(ctr, w, p) == ctr

\* *writer = *reader
WriteBack(ctr, w, p) == [ctr EXCEPT ![w] = p]

\* mParticles.erase(writer, mParticles.end())
EraseFrom(ctr, w) == SubSeq(ctr, 1, w - 1)

\* the particle loop of update(): reader visits every particle, writer follows
\* the survivors.  Yields the container, the final writer and the affector calls.
RECURSIVE ParticleLoop(_, _, _, _, _, _)
ParticleLoop(ctr, reader, writer, affectors, d, calls) ==
    IF reader > Len(ctr) THEN [ctr |-> ctr, writer |-> writer, calls |-> calls]
    ELSE LET p == updateParticle(ctr[reader], d) IN
         IF IsAlive(p)
         THEN LET r == ApplyAffectors(affectors, 1, p, d, calls) IN
              ParticleLoop(WriteBack([ctr EXCEPT ![reader] = r.particle], writer, r.particle),
                           reader + 1, writer + 1, affectors, d, r.calls)
         ELSE ParticleLoop([ctr EXCEPT ![reader] = p], reader + 1, writer, affectors, d, calls)

\* Mutant: the particle pass applies the affectors that were registered when
\* update() was entered.
PassAffectorsSnapshot(start, live) == start

\* the affector registry the particle pass iterates: mAffectors as it is when
\* the pass runs, not as it was when update() was entered
PassAffectors(start, live) == live

\* the particle an "emit" emitter hands to EmissionAdder::addParticle.
\* id, elapsed and touched are history fields: the particle's identity, the
\* elapsed time of the updates that returned since it was appended, and
\* whether an affector changed its lifetime.
NewParticle(pid, life) ==
    [id |-> pid, position |-> 0, velocity |-> 1, rotation |-> 0, rotationSpeed |-> 2,
     color |-> "white", passedLifetime |-> 0, totalLifetime |-> life,
     elapsed |-> 0, touched |-> FALSE]

\* addParticle(particle)
addParticle(ctr, p) == Append(ctr, p)

\* ---- mesh ---------------------------------------------------------------------------
\* the four vertices of one particle: corner i of the quad, transformed by the
\* particle's position and rotation, with the particle's color
Quad(p) == [i \in 1..4 |-> [corner |-> i, position |-> p.position,
                            rotation |-> p.rotation, color |-> p.color]]

\* computeVertices()
RECURSIVE computeVertices(_)
computeVertices(ctr) ==
    IF ctr = <<>> THEN <<>> ELSE Quad(Head(ctr)) \o computeVertices(Tail(ctr))

\* Mutant: the dirty flag is not cleared after the rebuild.
drawKeepFlag(vertices, needs, ctr) ==
    IF needs
    THEN [vertices |-> computeVertices(ctr), needs |-> TRUE, rebuilt |-> TRUE]
    ELSE [vertices |-> vertices, needs |-> needs, rebuilt |-> FALSE]

\* draw(target, states)
draw(vertices, needs, ctr) ==
    IF needs
    THEN [vertices |-> computeVertices(ctr), needs |-> FALSE, rebuilt |-> TRUE]
    ELSE [vertices |-> vertices, needs |-> needs, rebuilt |-> FALSE]

\* ---- initial state: after the constructor ----------------------------------------------
Constructed ==
    /\ mParticles = <<>>
    /\ mAffectors = <<>>
    /\ mEmitters = <<>>
    /\ mVertices = <<>>
    /\ mNeedsVertexUpdate = TRUE
    /\ pc = "idle"
    /\ dt = 0
    /\ itr = 1
    /\ nextId = 1
    /\ nextPid = 1
    /\ connections = {}
    /\ emStart = <<>>
    /\ afStart = <<>>
    /\ emitterCalls = <<>>
    /\ emitted = <<>>
    /\ passStart = <<>>
    /\ observed = <<>>
    /\ registryCalls = <<>>
    /\ target = <<>>
    /\ drawn = 0
    /\ rebuilds = 0

Init ==
    /\ Constructed
    /\ caps \in Runs

\* ---- host calls between updates ------------------------------------------------------------
\* number of entries ever registered in a container
Registered(ctrName) == Cardinality({c \in connections : c.ctr = ctrName})

\* the host keeps the connection; entry is the history of which entry it was returned for
Register(id, conn) ==
    /\ nextId' = id + 1
    /\ connections' = connections \cup {[ctr |-> conn.ctr, id |-> conn.id, entry |-> id]}

AddEmitter(fn, d) ==
    /\ pc = "idle"
    /\ Registered("emitters") < caps.emitters
    /\ LET r == addEmitter(mEmitters, fn, d, nextId) IN
        /\ mEmitters' = r.ctr
        /\ Register(nextId, r.connection)
    /\ UNCHANGED <<mParticles, mAffectors, mVertices, mNeedsVertexUpdate, nextPid>>
    /\ UNCHANGED <<caps, loop, hist, render>>

AddEmitterInfinite(fn) ==
    /\ pc = "idle"
    /\ Registered("emitters") < caps.emitters
    /\ LET r == addEmitterInfinite(mEmitters, fn, nextId) IN
        /\ mEmitters' = r.ctr
        /\ Register(nextId, r.connection)
    /\ UNCHANGED <<mParticles, mAffectors, mVertices, mNeedsVertexUpdate, nextPid>>
    /\ UNCHANGED <<caps, loop, hist, render>>

AddAffector(fn, d) ==
    /\ pc = "idle"
    /\ Registered("affectors") < caps.affectors
    /\ LET r == addAffector(mAffectors, fn, d, nextId) IN
        /\ mAffectors' = r.ctr
        /\ Register(nextId, r.connection)
    /\ UNCHANGED <<mParticles, mEmitters, mVertices, mNeedsVertexUpdate, nextPid>>
    /\ UNCHANGED <<caps, loop, hist, render>>

AddAffectorInfinite(fn) ==
    /\ pc = "idle"
    /\ Registered("affectors") < caps.affectors
    /\ LET r == addAffectorInfinite(mAffectors, fn, nextId) IN
        /\ mAffectors' = r.ctr
        /\ Register(nextId, r.connection)
    /\ UNCHANGED <<mParticles, mEmitters, mVertices, mNeedsVertexUpdate, nextPid>>
    /\ UNCHANGED <<caps, loop, hist, render>>

ClearEmitters ==
    /\ pc = "idle"
    /\ mEmitters # <<>>
    /\ mEmitters' = <<>>
    /\ UNCHANGED <<mParticles, mAffectors, mVertices, mNeedsVertexUpdate>>
    /\ UNCHANGED <<nextId, caps, nextPid, connections, loop, hist, render>>

ClearAffectors ==
    /\ pc = "idle"
    /\ mAffectors # <<>>
    /\ mAffectors' = <<>>
    /\ UNCHANGED <<mParticles, mEmitters, mVertices, mNeedsVertexUpdate>>
    /\ UNCHANGED <<nextId, caps, nextPid, connections, loop, hist, render>>

ClearParticles ==
    /\ pc = "idle"
    /\ mParticles # <<>>
    /\ mParticles' = <<>>
    /\ UNCHANGED <<mAffectors, mEmitters, mVertices, mNeedsVertexUpdate>>
    /\ UNCHANGED <<nextId, caps, nextPid, connections, loop, hist, render>>

\* Connection::disconnect() on a connection the host holds
Disconnect(c) ==
    /\ pc = "idle"
    /\ mEmitters' = IF c.ctr = "emitters" THEN disconnect(mEmitters, c.id) ELSE mEmitters
    /\ mAffectors' = IF c.ctr = "affectors" THEN disconnect(mAffectors, c.id) ELSE mAffectors
    /\ UNCHANGED <<mParticles, mVertices, mNeedsVertexUpdate>>
    /\ UNCHANGED <<nextId, caps, nextPid, connections, loop, hist, render>>

Draw ==
    /\ pc = "idle"
    /\ LET r == draw(mVertices, mNeedsVertexUpdate, mParticles) IN
        /\ mVertices' = r.vertices
        /\ mNeedsVertexUpdate' = r.needs
        /\ target' = r.vertices
        /\ rebuilds' = IF r.rebuilt THEN Min(rebuilds + 1, 2) ELSE rebuilds
    /\ drawn' = Min(drawn + 1, 2)
    /\ UNCHANGED <<mParticles, mAffectors, mEmitters>>
    /\ UNCHANGED <<nextId, caps, nextPid, connections, loop, hist>>

\* ---- update(dt) ----------------------------------------------------------------------------------
\* update(dt) is entered: the stored vertices are invalidated
UpdateBegin(d) ==
    /\ pc = "idle"
    /\ mNeedsVertexUpdate' = TRUE
    /\ target' = <<>>
    /\ pc' = "emitters"
    /\ dt' = d
    /\ itr' = 1
    /\ emStart' = mEmitters
    /\ afStart' = mAffectors
    /\ drawn' = 0
    /\ rebuilds' = 0
    /\ UNCHANGED <<mParticles, mAffectors, mEmitters, mVertices>>
    /\ UNCHANGED <<nextId, caps, nextPid, connections>>
    /\ UNCHANGED <<emitterCalls, emitted, passStart, observed, registryCalls>>

\* one iteration of the emitter loop with an "emit" callback: the callback,
\* then incrementCheckExpiry
EmitterStep ==
    /\ pc = "emitters"
    /\ itr <= Len(mEmitters)
    /\ mEmitters[itr].function = "emit"
    /\ LET e == mEmitters[itr]
           r == incrementCheckExpiry(mEmitters, itr, dt)
           emits == nextPid <= caps.particles
       IN
        /\ emitterCalls' = Append(emitterCalls, e.id)
        /\ IF emits
           THEN \E life \in LifetimeSet :
                  LET p == NewParticle(nextPid, life) IN
                    /\ mParticles' = addParticle(mParticles, p)
                    /\ emitted' = Append(emitted, p)
                    /\ nextPid' = nextPid + 1
           ELSE UNCHANGED <<mParticles, emitted, nextPid>>
        /\ mEmitters' = r.ctr
        /\ itr' = r.itr
    /\ UNCHANGED <<mAffectors, mVertices, mNeedsVertexUpdate, pc, dt>>
    /\ UNCHANGED <<nextId, caps, connections, emStart, afStart, passStart, observed, render>>
    /\ UNCHANGED registryCalls

\* history: the elapsed time of a returned update is added to the finite entries
Elapse(ctr, d) ==
    [i \in 1..Len(ctr) |->
       [ctr[i] EXCEPT !.elapsed = IF ctr[i].duration = Zero THEN 0
                                   ELSE Min(@ + d, ctr[i].duration)]]

\* the rest of update(): the particle loop, the erase of the dead particles and
\* the affector expiry loop; update() returns, and the elapsed time of this
\* update is added to the histories
UpdateFinish ==
    /\ pc = "emitters"
    /\ itr > Len(mEmitters)
    /\ pc' = "done"
    /\ passStart' = mParticles
    /\ LET r == ParticleLoop(mParticles, 1, 1, PassAffectors(afStart, mAffectors), dt, <<>>)
           kept == EraseFrom(r.ctr, r.writer)
       IN
        /\ mParticles' = [i \in 1..Len(kept) |->
                            [kept[i] EXCEPT !.elapsed = Min(@ + dt, kept[i].totalLifetime)]]
        /\ observed' = r.calls
    /\ mAffectors' = Elapse(ExpiryLoop(mAffectors, 1, dt), dt)
    /\ mEmitters' = Elapse(mEmitters, dt)
    /\ UNCHANGED <<mVertices, mNeedsVertexUpdate, dt, itr>>
    /\ UNCHANGED <<nextId, caps, nextPid, connections, render>>
    /\ UNCHANGED <<emStart, afStart, emitterCalls, emitted, registryCalls>>

\* the caller goes on; the histories of the finished update are forgotten
Resume ==
    /\ pc = "done"
    /\ pc' = "idle"
    /\ dt' = 0
    /\ itr' = 1
    /\ emStart' = <<>>
    /\ afStart' = <<>>
    /\ emitterCalls' = <<>>
    /\ emitted' = <<>>
    /\ passStart' = <<>>
    /\ observed' = <<>>
    /\ registryCalls' = <<>>
    /\ UNCHANGED <<sim, nextId, caps, nextPid, connections, render>>

Next ==
    \/ \E fn \in EmitterFunctions, d \in DurationSet : AddEmitter(fn, d)
    \/ \E fn \in EmitterFunctions : AddEmitterInfinite(fn)
    \/ \E fn \in AffectorFunctions, d \in DurationSet : AddAffector(fn, d)
    \/ \E fn \in AffectorFunctions : AddAffectorInfinite(fn)
    \/ ClearEmitters
    \/ ClearAffectors
    \/ ClearParticles
    \/ \E c \in connections : Disconnect(c)
    \/ Draw
    \/ \E d \in DtSet : UpdateBegin(d)
    \/ EmitterStep
    \/ UpdateFinish
    \/ Resume

Spec == Init /\ [][Next]_vars

\* ---- callbacks that call back into the system ---------------------------------------------------
\* The runs in which a callback of update() changes a registry.  A run also
\* fixes the callbacks the host registers.
\*   - an "addAffector" emitter registers an affector from inside its callback
\*   - a "disconnect" emitter disconnects the connection of an emitter
\*   - an "addEmitter" emitter registers an emitter from inside its callback
\*   - a "throw" affector paints the particle it is handed or fails; three
\*     particles is the smallest store in which a survivor has been copied
\*     down before a later particle is handed to the affector
CallbackRuns ==
    {[emitters |-> 2, affectors |-> 1, particles |-> 1,
      emitterFunctions |-> {"emit", "addAffector"}, affectorFunctions |-> {"color"}],
     [emitters |-> 2, affectors |-> 0, particles |-> 1,
      emitterFunctions |-> {"emit", "disconnect"}, affectorFunctions |-> {}],
     [emitters |-> 3, affectors |-> 0, particles |-> 0,
      emitterFunctions |-> {"addEmitter"}, affectorFunctions |-> {}],
     [emitters |-> 1, affectors |-> 1, particles |-> 3,
      emitterFunctions |-> {"emit"}, affectorFunctions |-> {"throw"}]}

InitCallbacks ==
    /\ Constructed
    /\ caps \in CallbackRuns

\* one iteration of the emitter loop whose callback calls system.addAffector:
\* the affector is appended to mAffectors, then incrementCheckExpiry runs on
\* the emitter.  The callback registers while the run has affectors left.
EmitterStepAddAffector ==
    /\ pc = "emitters"
    /\ itr <= Len(mEmitters)
    /\ mEmitters[itr].function = "addAffector"
    /\ LET e == mEmitters[itr]
           r == incrementCheckExpiry(mEmitters, itr, dt)
       IN
        /\ emitterCalls' = Append(emitterCalls, e.id)
        /\ IF Registered("affectors") < caps.affectors
           THEN \E fn \in caps.affectorFunctions, d \in DurationSet :
                  LET a == addAffector(mAffectors, fn, d, nextId) IN
                    /\ mAffectors' = a.ctr
                    /\ Register(nextId, a.connection)
                    /\ registryCalls' = Append(registryCalls,
                                               [op |-> "addAffector", id |-> nextId, by |-> e.id])
           ELSE UNCHANGED <<mAffectors, nextId, connections, registryCalls>>
        /\ mEmitters' = r.ctr
        /\ itr' = r.itr
    /\ UNCHANGED <<mParticles, mVertices, mNeedsVertexUpdate, pc, dt, nextPid, caps>>
    /\ UNCHANGED <<emStart, afStart, emitted, passStart, observed, render>>

\* one iteration of the emitter loop whose callback calls disconnect() on the
\* connection of an emitter (its own or another one; a connection whose entry
\* is gone changes nothing).  IdConnectionImpl::disconnect erases the entry
\* from mEmitters.  An erase behind itr leaves itr valid.  An erase at or
\* before itr invalidates itr, and incrementCheckExpiry then uses it: either
\* the build keeps the raw position, which now holds the element that
\* followed, or the behaviour is undefined (a checked iterator aborts; a
\* position past the end is read).
EmitterStepDisconnect ==
    /\ pc = "emitters"
    /\ itr <= Len(mEmitters)
    /\ mEmitters[itr].function = "disconnect"
    /\ \E c \in {x \in connections : x.ctr = "emitters"} :
         LET e == mEmitters[itr]
             k == FindId(mEmitters, c.id, 1)
             erased == disconnect(mEmitters, c.id)
             r == incrementCheckExpiry(erased, itr, dt)
         IN
          /\ emitterCalls' = Append(emitterCalls, e.id)
          /\ registryCalls' = Append(registryCalls,
                                     [op |-> "disconnect", id |-> c.entry, by |-> e.id])
          /\ IF k = 0 \/ k > itr
             THEN mEmitters' = r.ctr /\ itr' = r.itr /\ pc' = pc
             ELSE \/ /\ itr <= Len(erased)
                     /\ mEmitters' = r.ctr /\ itr' = r.itr /\ pc' = pc
                  \/ mEmitters' = erased /\ itr' = itr /\ pc' = "undefined"
    /\ UNCHANGED <<mParticles, mAffectors, mVertices, mNeedsVertexUpdate, dt>>
    /\ UNCHANGED <<nextId, nextPid, caps, connections>>
    /\ UNCHANGED <<emStart, afStart, emitted, passStart, observed, render>>

\* one iteration of the emitter loop whose callback calls system.addEmitter:
\* push_back on the vector the loop iterates.  Whether push_back reallocates
\* depends on the capacity, which the growth policy of the build decides.
\* Without reallocation itr stays valid and the loop goes on (and reaches the
\* new emitter in this same update); with reallocation itr dangles and the
\* behaviour of incrementCheckExpiry(mEmitters, itr, dt) and of the loop test
\* is undefined.  The callback registers while the run has emitters left.
EmitterStepAddEmitter ==
    /\ pc = "emitters"
    /\ itr <= Len(mEmitters)
    /\ mEmitters[itr].function = "addEmitter"
    /\ LET e == mEmitters[itr] IN
        /\ emitterCalls' = Append(emitterCalls, e.id)
        /\ IF Registered("emitters") < caps.emitters
           THEN \E fn \in caps.emitterFunctions, d \in DurationSet :
                  LET a == addEmitter(mEmitters, fn, d, nextId)
                      r == incrementCheckExpiry(a.ctr, itr, dt)
                  IN
                   /\ Register(nextId, a.connection)
                   /\ registryCalls' = Append(registryCalls,
                                              [op |-> "addEmitter", id |-> nextId, by |-> e.id])
                   /\ \/ mEmitters' = r.ctr /\ itr' = r.itr /\ pc' = pc
                      \/ mEmitters' = a.ctr /\ itr' = itr /\ pc' = "undefined"
           ELSE LET r == incrementCheckExpiry(mEmitters, itr, dt) IN
                   /\ mEmitters' = r.ctr /\ itr' = r.itr /\ pc' = pc
                   /\ UNCHANGED <<nextId, connections, registryCalls>>
    /\ UNCHANGED <<mParticles, mAffectors, mVertices, mNeedsVertexUpdate, dt, nextPid, caps>>
    /\ UNCHANGED <<emStart, afStart, emitted, passStart, observed, render>>

\* the rest of update() when the "throw" affector at position j of the
\* registry fails on the particle at reader position k: the particles before
\* k have been integrated and the survivors copied down, particle k has been
\* integrated in place and handed to the affectors before j, and the
\* exception leaves update(): the erase of the tail and the affector expiry
\* loop do not run.
UpdateThrow ==
    /\ pc = "emitters"
    /\ itr > Len(mEmitters)
    /\ \E k \in 1..Len(mParticles), j \in 1..Len(mAffectors) :
         LET pre == ParticleLoop(SubSeq(mParticles, 1, k - 1), 1, 1, mAffectors, dt, <<>>)
             p == updateParticle(mParticles[k], dt)
             before == ApplyAffectors(SubSeq(mAffectors, 1, j - 1), 1, p, dt, pre.calls)
         IN
          /\ mAffectors[j].function = "throw"
          /\ IsAlive(p)
          /\ mParticles' = pre.ctr \o <<before.particle>>
                                   \o SubSeq(mParticles, k + 1, Len(mParticles))
          /\ observed' = Append(before.calls,
                                [affector |-> mAffectors[j].id, particle |-> p.id,
                                 passedLifetime |-> before.particle.passedLifetime,
                                 totalLifetime |-> before.particle.totalLifetime])
    /\ pc' = "thrown"
    /\ passStart' = mParticles
    /\ mEmitters' = Elapse(mEmitters, dt)
    /\ UNCHANGED <<mAffectors, mVertices, mNeedsVertexUpdate, dt, itr>>
    /\ UNCHANGED <<nextId, caps, nextPid, connections, render>>
    /\ UNCHANGED <<emStart, afStart, emitterCalls, emitted, registryCalls>>

\* the caller catches the exception and goes on; the histories are forgotten
Catch ==
    /\ pc = "thrown"
    /\ pc' = "idle"
    /\ dt' = 0
    /\ itr' = 1
    /\ emStart' = <<>>
    /\ afStart' = <<>>
    /\ emitterCalls' = <<>>
    /\ emitted' = <<>>
    /\ passStart' = <<>>
    /\ observed' = <<>>
    /\ registryCalls' = <<>>
    /\ UNCHANGED <<sim, nextId, caps, nextPid, connections, render>>

\* the host registers, disconnects and updates; the emitter loop runs the
\* callback of the emitter it is at
NextCallbacks ==
    \/ \E fn \in caps.emitterFunctions, d \in DurationSet : AddEmitter(fn, d)
    \/ \E fn \in caps.emitterFunctions : AddEmitterInfinite(fn)
    \/ \E fn \in caps.affectorFunctions, d \in DurationSet : AddAffector(fn, d)
    \/ \E fn \in caps.affectorFunctions : AddAffectorInfinite(fn)
    \/ \E c \in connections : Disconnect(c)
    \/ \E d \in DtSet : UpdateBegin(d)
    \/ EmitterStep
    \/ EmitterStepAddAffector
    \/ EmitterStepDisconnect
    \/ EmitterStepAddEmitter
    \/ UpdateFinish
    \/ UpdateThrow
    \/ Resume
    \/ Catch

SpecCallbacks == InitCallbacks /\ [][NextCallbacks]_vars

\* ---- callbacks that register, under fairness ---------------------------------------------------------
\* the runs whose emitter callbacks register affectors or emitters
RegisteringRuns ==
    {r \in CallbackRuns : r.emitterFunctions \cap {"addAffector", "addEmitter"} # {}}

InitRegistering ==
    /\ Constructed
    /\ caps \in RegisteringRuns

\* a step of the running update(): the thread that called update() keeps
\* executing it
UpdateStep ==
    \/ EmitterStep
    \/ EmitterStepAddAffector
    \/ EmitterStepAddEmitter
    \/ UpdateFinish

NextRegistering ==
    \/ \E fn \in caps.emitterFunctions, d \in DurationSet : AddEmitter(fn, d)
    \/ \E fn \in caps.emitterFunctions : AddEmitterInfinite(fn)
    \/ \E fn \in caps.affectorFunctions, d \in DurationSet : AddAffector(fn, d)
    \/ \E fn \in caps.affectorFunctions : AddAffectorInfinite(fn)
    \/ \E c \in connections : Disconnect(c)
    \/ \E d \in DtSet : UpdateBegin(d)
    \/ UpdateStep
    \/ Resume

\* a running update() is never suspended forever
LiveSpecRegistering ==
    InitRegistering /\ [][NextRegistering]_vars /\ WF_vars(UpdateStep)

\* ---- elapsed times and durations of either sign ---------------------------------------------------
\* sf::Time is signed and neither update() nor the registrations validate it
SignedDtSet == (-MaxDt)..MaxDt
SignedDurationSet == (-MaxDuration)..MaxDuration

\* largest remaining duration that is explored
MaxRemaining == MaxDuration + MaxDt

\* an emitter and an affector, no particles: a negative dt would un-age them
\* without bound
SignedRuns == {[emitters |-> 1, affectors |-> 1, particles |-> 0]}

InitSigned ==
    /\ Constructed
    /\ caps \in SignedRuns

\* update(d) keeps every remaining duration within the explored range
WithinRange(d) ==
    \A e \in Range(mEmitters) \cup Range(mAffectors) : e.timeUntilRemoval - d <= MaxRemaining

NextSigned ==
    \/ \E fn \in EmitterFunctions, d \in SignedDurationSet : AddEmitter(fn, d)
    \/ \E fn \in EmitterFunctions : AddEmitterInfinite(fn)
    \/ \E fn \in AffectorFunctions, d \in SignedDurationSet : AddAffector(fn, d)
    \/ \E fn \in AffectorFunctions : AddAffectorInfinite(fn)
    \/ \E d \in SignedDtSet : WithinRange(d) /\ UpdateBegin(d)
    \/ EmitterStep
    \/ UpdateFinish
    \/ Resume

SpecSigned == InitSigned /\ [][NextSigned]_vars

\* ---- properties ------------------------------------------------------------------------------------
Count(s, x) == Cardinality({i \in 1..Len(s) : s[i] = x})

Entries == Range(mEmitters) \cup Range(mAffectors)

Started == Range(emStart) \cup Range(afStart)

\* the particle with identity pid is in the store
InStore(pid) == pid \in Ids(mParticles)

\* C1: without affectors that change lifetimes, a particle with totalLifetime T
\* is in the store after every update that leaves the cumulative elapsed time
\* of its updates below T, where its passedLifetime is that cumulative time,
\* and it is absent right after the first update that brings it to T or more.
C1_LifetimeCulling ==
    pc = "done" =>
        /\ \A p \in Range(passStart) :
             ~p.touched =>
               IF p.elapsed + dt < p.totalLifetime THEN InStore(p.id) ELSE ~InStore(p.id)
        /\ \A q \in Range(mParticles) :
             ~q.touched => q.passedLifetime = q.elapsed /\ q.elapsed < q.totalLifetime

\* a particle that survived an earlier update is culled by this one, under an
\* affector that leaves lifetimes alone
C1_Witness ==
    /\ pc = "done"
    /\ afStart # <<>>
    /\ \A a \in Range(afStart) : a.function = "color"
    /\ \E p \in Range(passStart) :
         /\ ~p.touched /\ p.elapsed > 0 /\ p.elapsed < p.totalLifetime
         /\ p.elapsed + dt >= p.totalLifetime
         /\ ~InStore(p.id)

\* the particle is alive after this update's integration step
Survives(p) == p.passedLifetime + dt < p.totalLifetime

\* C2: after update the store is exactly the subsequence of the store at the
\* start of the particle pass made of the particles alive after integration:
\* same order, none duplicated or lost, size equal to the survivor count.
C2_StableCompaction ==
    pc = "done" => IdSeq(mParticles) = IdSeq(SelectSeq(passStart, Survives))

\* a survivor is moved to the front over a dead particle
C2_Witness ==
    /\ pc = "done"
    /\ Len(passStart) >= 2
    /\ ~Survives(passStart[1])
    /\ Survives(passStart[2])
    /\ Len(mParticles) = 1

\* C3: an entry registered with a positive duration D is absent from its
\* registry once the elapsed time of the updates since its registration is at
\* least D, and an update that leaves that time below D keeps it.
C3_FiniteExpiry ==
    pc = "done" =>
        /\ \A e \in Entries : e.duration > Zero => e.elapsed < e.duration
        /\ \A e \in Range(emStart) :
             (e.duration > Zero /\ e.elapsed + dt < e.duration) => e.id \in Ids(mEmitters)
        /\ \A e \in Range(afStart) :
             (e.duration > Zero /\ e.elapsed + dt < e.duration) => e.id \in Ids(mAffectors)

\* an emitter and an affector that survived an earlier update expire in this one
C3_Witness ==
    /\ pc = "done"
    /\ \E e \in Range(emStart) :
         /\ e.duration > Zero /\ e.elapsed > 0 /\ e.elapsed + dt >= e.duration
         /\ e.id \notin Ids(mEmitters)
    /\ \E a \in Range(afStart) :
         /\ a.duration > Zero /\ a.elapsed > 0 /\ a.elapsed + dt >= a.duration
         /\ a.id \notin Ids(mAffectors)

\* C4: an entry registered without a duration or with duration zero is never
\* removed by update and keeps timeUntilRemoval zero: only a step of the host
\* between updates (disconnect, clearEmitters, clearAffectors) removes it.
C4_ZeroNeverExpires ==
    [][\A e \in Entries :
         e.duration = Zero =>
           \/ \E f \in Range(mEmitters') \cup Range(mAffectors') :
                f.id = e.id /\ f.timeUntilRemoval = Zero
           \/ pc = "idle" /\ pc' = "idle"]_vars

\* zero-duration entries are in both registries after an update with the largest dt
C4_Witness ==
    /\ pc = "done"
    /\ dt = MaxDt
    /\ \E e \in Range(emStart) :
         e.duration = Zero /\ \E f \in Range(mEmitters) : f.id = e.id /\ f.timeUntilRemoval = Zero
    /\ \E a \in Range(afStart) :
         a.duration = Zero /\ \E f \in Range(mAffectors) : f.id = a.id /\ f.timeUntilRemoval = Zero

\* the container without the entry of identity id, the others in their order
Without(ctr, id) == SelectSeq(ctr, LAMBDA e : e.id # id)

C6_DrawIdempotent ==
    /\ [](rebuilds <= 1)
    /\ [][(Draw /\ drawn >= 1) =>
            (target' = target /\ mVertices' = mVertices /\ rebuilds' = rebuilds)]_vars

\* two draws of a non-empty store since the last update, one rebuild
C6_Witness ==
    /\ drawn = 2
    /\ rebuilds = 1
    /\ mParticles # <<>>
    /\ target = computeVertices(mParticles)

\* C7: an emitter whose remaining finite duration is at most dt at the start
\* of update(dt) is invoked exactly once in that update and is absent from the
\* registry when the update returns; an emitter is invoked only if it was in
\* the registry, not yet expired, when the update started.
C7_ExpiringEmitterStillEmits ==
    /\ pc = "done" =>
         \A e \in Range(emStart) :
           (e.timeUntilRemoval # Zero /\ e.timeUntilRemoval <= dt) =>
             Count(emitterCalls, e.id) = 1 /\ e.id \notin Ids(mEmitters)
    /\ \A id \in Range(emitterCalls) :
         \E e \in Range(emStart) :
           e.id = id /\ (e.duration > Zero => e.elapsed < e.duration)

\* an emitter with less than dt left emitted a particle and is gone
C7_Witness ==
    /\ pc = "done"
    /\ \E e \in Range(emStart) :
         /\ e.timeUntilRemoval # Zero /\ e.timeUntilRemoval < dt
         /\ Count(emitterCalls, e.id) = 1
         /\ e.id \notin Ids(mEmitters)
    /\ emitted # <<>>

\* C8 as stated: a particle appended by an emitter during update(dt) is in the
\* store when the update returns, with the position, rotation and
\* passedLifetime it was appended with.
C8_NotIntegrated ==
    pc = "done" =>
        \A p \in Range(emitted) :
          \E q \in Range(mParticles) :
            /\ q.id = p.id
            /\ q.position = p.position
            /\ q.rotation = p.rotation
            /\ q.passedLifetime = p.passedLifetime

\* C8 amended: a particle appended by an emitter during update(dt) receives
\* the integration step of that same update: when the update returns it is
\* absent if passedLifetime + dt reaches totalLifetime, and otherwise it is in
\* the store with position and rotation advanced by dt times velocity and
\* rotationSpeed and passedLifetime advanced by dt, unless an affector of that
\* update overwrote the lifetime.
C8_IntegratedSameUpdate ==
    pc = "done" =>
        \A p \in Range(emitted) :
          IF p.passedLifetime + dt < p.totalLifetime
          THEN \E q \in Range(mParticles) :
                 /\ q.id = p.id
                 /\ q.position = p.position + dt * p.velocity
                 /\ q.rotation = p.rotation + dt * p.rotationSpeed
                 /\ q.touched \/ q.passedLifetime = p.passedLifetime + dt
          ELSE ~InStore(p.id)

\* a particle emitted by this update has moved by the time the update returns
C8_Witness ==
    /\ pc = "done"
    /\ dt > 0
    /\ \E p \in Range(emitted) :
         \E q \in Range(mParticles) :
           /\ q.id = p.id
           /\ q.position = p.position + dt * p.velocity
           /\ q.position # p.position
           /\ q.passedLifetime = p.passedLifetime + dt

\* C9: every particle handed to an affector by update satisfies
\* passedLifetime < totalLifetime at the moment of the call, whatever the
\* earlier affectors of the same iteration did to it.
C9_AffectorsSeeLive ==
    \A c \in Range(observed) : c.passedLifetime < c.totalLifetime

\* C10: when update returns, every particle in the store satisfies
\* passedLifetime < totalLifetime, also when an affector changed its lifetime
\* fields in that update.
C10_NoDeadAfterUpdate ==
    pc = "done" => \A q \in Range(mParticles) : q.passedLifetime < q.totalLifetime

\* C11: an affector registered by an emitter callback during the emission pass
\* of an update is applied, in that same update, exactly once to every particle
\* that is in the store when the update returns: the particle pass reads the
\* affector registry as it is when the pass runs.
C11_AffectorAddedInUpdateApplies ==
    pc = "done" =>
        \A c \in Range(registryCalls) :
          c.op = "addAffector" =>
            \A q \in Range(mParticles) :
              Cardinality({i \in 1..Len(observed) :
                             observed[i].affector = c.id /\ observed[i].particle = q.id}) = 1

\* the registry was empty when update() was entered; an emitter callback
\* registered an affector, and a particle that survived the update was
\* painted by it
C11_Witness ==
    /\ pc = "done"
    /\ afStart = <<>>
    /\ \E c \in Range(registryCalls) :
         /\ c.op = "addAffector"
         /\ \E q \in Range(mParticles) :
              /\ q.color = "red"
              /\ \E i \in 1..Len(observed) :
                   observed[i].affector = c.id /\ observed[i].particle = q.id

\* C12: in every reachable state, when the mesh cache is marked valid
\* (mNeedsVertexUpdate is false) the cached mesh is the four vertices of each
\* particle of the current store, in store order.
C12_ValidCacheMatchesStore ==
    ~mNeedsVertexUpdate => mVertices = computeVertices(mParticles)

\* the calls of the particle pass that handed particle pid to affector id
CallsOf(id, pid) ==
    {i \in 1..Len(observed) : observed[i].affector = id /\ observed[i].particle = pid}

\* C13: update with elapsed time zero leaves position, rotation and
\* passedLifetime of every particle as they were at the start of the particle
\* pass (an affector may still set the lifetime), invokes every registered
\* emitter exactly once, applies every affector once to every live particle,
\* and removes no emitter or affector: the registries and the remaining
\* durations are the same when it returns.
C13_ZeroDtUpdate ==
    (pc = "done" /\ dt = 0) =>
        /\ \A q \in Range(mParticles) :
             \E p \in Range(passStart) :
               /\ p.id = q.id
               /\ q.position = p.position
               /\ q.rotation = p.rotation
               /\ q.touched \/ q.passedLifetime = p.passedLifetime
        /\ emitterCalls = IdSeq(emStart)
        /\ \A p \in Range(passStart) :
             IsAlive(p) =>
               /\ \A a \in Range(afStart) : Cardinality(CallsOf(a.id, p.id)) = 1
               /\ InStore(p.id)
        /\ IdSeq(mEmitters) = IdSeq(emStart)
        /\ IdSeq(mAffectors) = IdSeq(afStart)
        /\ \A i \in 1..Len(emStart) : mEmitters[i].timeUntilRemoval = emStart[i].timeUntilRemoval
        /\ \A i \in 1..Len(afStart) : mAffectors[i].timeUntilRemoval = afStart[i].timeUntilRemoval

\* an update with dt = 0 ran over a particle that had already aged and moved,
\* with a finite emitter and a finite affector that both had time left
C13_Witness ==
    /\ pc = "done"
    /\ dt = 0
    /\ \E e \in Range(emStart) : e.timeUntilRemoval > Zero /\ e.elapsed > 0
    /\ \E a \in Range(afStart) : a.timeUntilRemoval > Zero
    /\ \E q \in Range(mParticles) :
         /\ q.passedLifetime > 0 /\ q.position > 0
         /\ \E a \in Range(afStart) : CallsOf(a.id, q.id) # {}

\* C16: in an update whose callbacks do not change the emitter registry, every
\* emitter that was in the registry at the start is invoked exactly once, in
\* registration order, and every finite-duration emitter is decremented by dt
\* exactly once: it is gone when its remaining time was at most dt and is left
\* with that time minus dt otherwise, also when emitters before it were erased
\* during the pass.  The order of the remaining emitters is kept.
C16_EmitterPassOnceInOrder ==
    (pc = "done" /\ registryCalls = <<>>) =>
        /\ emitterCalls = IdSeq(emStart)
        /\ IdSeq(mEmitters) =
             IdSeq(SelectSeq(emStart, LAMBDA e : e.timeUntilRemoval = Zero \/ e.timeUntilRemoval > dt))
        /\ \A e \in Range(emStart) :
             \A f \in Range(mEmitters) :
               f.id = e.id =>
                 f.timeUntilRemoval =
                   IF e.timeUntilRemoval = Zero THEN Zero ELSE e.timeUntilRemoval - dt

\* the first of three emitters expired and was erased during the pass; the two
\* after it were still invoked, and the last one, finite, was decremented
C16_Witness ==
    /\ pc = "done"
    /\ registryCalls = <<>>
    /\ Len(emStart) = 3
    /\ emStart[1].timeUntilRemoval # Zero /\ emStart[1].timeUntilRemoval <= dt
    /\ emStart[3].timeUntilRemoval > dt
    /\ emitterCalls = IdSeq(emStart)
    /\ Len(mEmitters) = 2
    /\ mEmitters[2].timeUntilRemoval = emStart[3].timeUntilRemoval - dt

\* the ids of the emitters disconnected by a callback of the running update
Disconnected == {c.id : c \in {x \in Range(registryCalls) : x.op = "disconnect"}}

\* C14: when an emitter callback running inside update disconnects the
\* connection of an emitter, the update completes without undefined
\* behaviour (the iteration reads no position past the end), the other
\* emitters that were registered at the start are invoked exactly once each in
\* registration order, each of them with a finite duration is decremented by
\* dt exactly once, and the disconnected emitter is no longer in the registry.
C14_DisconnectInCallback ==
    /\ pc # "undefined"
    /\ pc = "done" =>
         LET others == SelectSeq(emStart, LAMBDA e : e.id \notin Disconnected) IN
           /\ SelectSeq(emitterCalls, LAMBDA id : id \notin Disconnected) = IdSeq(others)
           /\ \A e \in Range(others) :
                /\ (e.timeUntilRemoval = Zero \/ e.timeUntilRemoval > dt) => e.id \in Ids(mEmitters)
                /\ \A f \in Range(mEmitters) :
                     f.id = e.id =>
                       f.timeUntilRemoval =
                         IF e.timeUntilRemoval = Zero THEN Zero ELSE e.timeUntilRemoval - dt
           /\ Disconnected \cap Ids(mEmitters) = {}

\* C15: every update call eventually returns, also when emitter callbacks
\* register emitters or affectors during the update.
C15_UpdateReturns ==
    (pc = "emitters") ~> (pc = "done")

\* C20: when an affector callback fails partway through the particle pass,
\* the store is not corrupted: no particle is in it twice, and every particle
\* that was alive after its integration, or was not yet reached, is in it.
C20_StoreIntactAfterThrow ==
    pc = "thrown" =>
        /\ Cardinality(Ids(mParticles)) = Len(mParticles)
        /\ \A i \in 1..Len(passStart) :
             (Survives(passStart[i]) \/ i > Len(mParticles)) => InStore(passStart[i].id)

\* the particles of the pass that are alive after their integration, in store order
AliveInPass == SelectSeq(passStart, Survives)

\* C17: in the particle pass of an update, each particle that is alive after
\* its integration is handed to every affector of the registry exactly once,
\* in registration order, after its own integration; a particle that is dead
\* after integration is handed to none.  The calls of the pass are, particle
\* by particle in store order, one call per affector in registry order.
C17_AffectorsOncePerLiveParticle ==
    (pc = "done" /\ registryCalls = <<>>) =>
        LET n == Len(afStart) IN
          /\ Len(observed) = Len(AliveInPass) * n
          /\ \A j \in 1..Len(AliveInPass), k \in 1..n :
               LET c == observed[(j - 1) * n + k] IN
                 /\ c.affector = afStart[k].id
                 /\ c.particle = AliveInPass[j].id
                 /\ k = 1 => c.passedLifetime = AliveInPass[j].passedLifetime + dt

\* a particle was handed to two affectors, in their registration order, with
\* the lifetime it has after this update's integration
C17_Witness ==
    /\ pc = "done"
    /\ dt > 0
    /\ Len(afStart) = 2
    /\ \E p \in Range(passStart) :
         /\ Survives(p)
         /\ Len(observed) = 2
         /\ observed[1].affector = afStart[1].id /\ observed[1].particle = p.id
         /\ observed[2].affector = afStart[2].id /\ observed[2].particle = p.id
         /\ observed[1].passedLifetime = p.passedLifetime + dt

\* C18: the remaining duration of a finite affector is decremented by dt
\* exactly once per update, after the particle pass: an affector whose
\* remaining duration at the start of update is at most dt is still applied
\* to the particles alive in that update and is absent when the update
\* returns; any other affector is in place, with its remaining duration minus
\* dt when it is finite, however many particles the pass visited.
C18_AffectorExpiryAfterPass ==
    (pc = "done" /\ registryCalls = <<>>) =>
        /\ \A a \in Range(afStart) :
             /\ \A p \in Range(AliveInPass) : CallsOf(a.id, p.id) # {}
             /\ IF a.timeUntilRemoval # Zero /\ a.timeUntilRemoval <= dt
                THEN a.id \notin Ids(mAffectors)
                ELSE \E f \in Range(mAffectors) :
                       /\ f.id = a.id
                       /\ f.timeUntilRemoval =
                            IF a.timeUntilRemoval = Zero THEN Zero ELSE a.timeUntilRemoval - dt
        /\ Ids(mAffectors) \subseteq Ids(afStart)

\* an affector that had as much time left as this update took painted the
\* particle that survived the update, and is gone when the update returns
C18_Witness ==
    /\ pc = "done"
    /\ \E a \in Range(afStart) :
         /\ a.timeUntilRemoval # Zero /\ a.timeUntilRemoval <= dt
         /\ a.function = "color"
         /\ a.id \notin Ids(mAffectors)
         /\ \E q \in Range(mParticles) : q.color = "red" /\ CallsOf(a.id, q.id) # {}

\* C19: an entry registered with a non-zero duration never carries the zero
\* sentinel, and when an update returns every such entry still in its registry
\* (all of them were decremented by that update) has timeUntilRemoval strictly
\* greater than zero, for elapsed times and durations of either sign: a
\* decrement that lands on zero or below removes the entry.
C19_FiniteNeverBecomesInfinite ==
    /\ \A e \in Entries : e.duration # Zero => e.timeUntilRemoval # Zero
    /\ pc = "done" =>
         /\ \A e \in Entries : e.duration # Zero => e.timeUntilRemoval > Zero
         /\ \A e \in Started :
              (e.timeUntilRemoval # Zero /\ e.timeUntilRemoval - dt <= Zero) =>
                e.id \notin {f.id : f \in Entries}

\* an update with a negative dt: an emitter registered with a negative
\* duration is left with a positive one, and an affector whose remaining
\* duration was equal to dt landed exactly on zero and is gone
C19_Witness ==
    /\ pc = "done"
    /\ dt < 0
    /\ \E e \in Range(mEmitters) : e.duration < Zero /\ e.timeUntilRemoval > Zero
    /\ \E a \in Range(afStart) : a.timeUntilRemoval = dt /\ a.id \notin Ids(mAffectors)

====
